---- MODULE Spec2Model ----
(***************************************************************************)
(* Model of keepToOrgJson.py: the conversion of exported note records      *)
(* into per-group outline files.                                           *)
(*                                                                         *)
(* Strings are sequences of tokens.  A token is a TLA+ string that stands  *)
(* for one character or for one fixed fragment of text:                    *)
(*   "a" "b"          letters                                              *)
(*   "nl" "sp"        line break, space (the whitespace str.strip removes) *)
(*   "#" "." "/" "&"  those characters                                     *)
(*   "&amp;"          the entity that html.unescape turns into "&"         *)
(*   "&amp;amp;"      the doubly escaped entity (unescapes to "&amp;")     *)
(*   the list markup fragments of lines 59-70, one token each              *)
(***************************************************************************)
EXTENDS Integers, Sequences, FiniteSets, TLC

VARIABLES
    tagsPopulated,   \* whether Note.tags is populated before the grouping stage
    includeArchived, \* main's flag
    splitByTag,      \* main's flag
    pc,              \* main's position: "parse", "render", "done", "error"
    meta_data,       \* the record of the current iteration of the parse loop
    notes,           \* the Note objects created so far, in creation order
    noteGroups,      \* the dict tag -> list of notes, in insertion order
    files,           \* the output directory: file name -> content
    wrote,           \* every writelines call so far: group, file name, lines
    numNotesWritten, \* main's counter
    rnote,           \* rendering alone: the Note toOrgString is called on
    rpre,            \* rendering alone: that Note before the last call
    rblocks          \* rendering alone: the blocks returned so far

vars == <<tagsPopulated, includeArchived, splitByTag, pc, meta_data, notes,
          noteGroups, files, wrote, numNotesWritten, rnote, rpre, rblocks>>

mainVars == <<tagsPopulated, includeArchived, splitByTag, pc, meta_data, notes,
              noteGroups, files, wrote, numNotesWritten>>

renderVars == <<rnote, rpre, rblocks>>

----------------------------------------------------------------------------
(* Bounds of the model. *)

\* records read in one run of main
MaxNotes == 2
\* tokens of a body handed to toOrgString alone
MaxBodyLen == 3
\* attachments of a note handed to toOrgString alone
MaxImages == 2
----------------------------------------------------------------------------
(* Strings. *)

RECURSIVE SeqsUpTo(_, _)
SeqsUpTo(S, n) ==
    IF n = 0 THEN {<<>>}
    ELSE LET shorter == SeqsUpTo(S, n - 1)
         IN  shorter \cup {Append(s, c) : s \in shorter, c \in S}

IsPrefix(p, s) == Len(p) <= Len(s) /\ SubSeq(s, 1, Len(p)) = p

\* str.replace(old, new): every non-overlapping occurrence, left to right
RECURSIVE Replace(_, _, _)
Replace(s, old, new) ==
    IF Len(s) < Len(old) \/ old = <<>> THEN s
    ELSE IF IsPrefix(old, s)
         THEN new \o Replace(SubSeq(s, Len(old) + 1, Len(s)), old, new)
         ELSE <<Head(s)>> \o Replace(Tail(s), old, new)

Whitespace == {"nl", "sp"}

RECURSIVE LStrip(_)
LStrip(s) == IF s # <<>> /\ Head(s) \in Whitespace THEN LStrip(Tail(s)) ELSE s

RECURSIVE RStrip(_)
RStrip(s) ==
    IF s # <<>> /\ s[Len(s)] \in Whitespace
    THEN RStrip(SubSeq(s, 1, Len(s) - 1)) ELSE s

\* str.strip()
Strip(s) == RStrip(LStrip(s))

\* str.find("\n"): the 0-based index of the first line break, -1 if none
Find(s, c) ==
    IF \E k \in 1..Len(s) : s[k] = c
    THEN (CHOOSE k \in 1..Len(s) : s[k] = c /\ \A j \in 1..(k - 1) : s[j] # c) - 1
    ELSE -1

\* html.unescape on one token
UnescapeToken(c) ==
    CASE c = "&amp;amp;" -> "&amp;"
      [] c = "&amp;"     -> "&"
      [] OTHER           -> c

\* html.unescape
Unescape(s) == [k \in 1..Len(s) |-> UnescapeToken(s[k])]

\* "\n".join(parts)
RECURSIVE JoinLines(_)
JoinLines(parts) ==
    IF parts = <<>> THEN <<>>
    ELSE IF Len(parts) = 1 THEN parts[1]
    ELSE parts[1] \o <<"nl">> \o JoinLines(Tail(parts))

RECURSIVE Concat(_)
Concat(parts) == IF parts = <<>> THEN <<>> ELSE Head(parts) \o Concat(Tail(parts))

----------------------------------------------------------------------------
(* tagsToOrgString and Note. *)

RECURSIVE tagsToOrgStringLoop(_, _)
tagsToOrgStringLoop(tagString, tags) ==
    IF tags = <<>> THEN tagString
    ELSE tagsToOrgStringLoop(tagString \o Head(tags) \o <<":">>, Tail(tags))

tagsToOrgString(tags) ==
    IF Len(tags) = 0 THEN <<>> ELSE tagsToOrgStringLoop(<<":">>, tags)

\* datetime values: whole seconds since the epoch and the microseconds within
UsecPerSec == 1000000
SecondsPerMinute == 60
FallbackSeconds == 946684800

\* datetime.datetime(2000, 1, 1)
FallbackDate == [sec |-> FallbackSeconds, usec |-> 0]

\* datetime.datetime.fromtimestamp(usec / 1000000.0)
fromtimestamp(usec) == [sec |-> usec \div UsecPerSec, usec |-> usec % UsecPerSec]

\* d1 < d2 on datetime values
DateLess(d1, d2) == d1.sec < d2.sec \/ (d1.sec = d2.sec /\ d1.usec < d2.usec)

\* Note.__init__
NewNote ==
    [title |-> <<>>, body |-> <<>>, tags |-> <<>>, archived |-> FALSE,
     date |-> FallbackDate, images |-> <<>>]

\* self.date.strftime(":PROPERTIES:\n:CREATED:  [%Y-%m-%d %a %H:%M]\n:END:"):
\* the date is printed to the minute
strftime(date) ==
    <<":PROPERTIES:", "nl", ":CREATED:", ToString(date.sec \div SecondsPerMinute),
      "nl", ":END:">>

UncheckedItem == "<li class=listitem><span class=bullet>&#9744;</span>nl"
CheckedItem == "<li class=listitem checked><span class=bullet>&#9745;</span>"
UncheckedBox == <<"- [ ]", "sp">>
CheckedBox == <<"- [X]", "sp">>
HtmlTagsToErase == <<"<span class=text>", "</span>", "</li>", "<ul class=list>", "</ul>">>

RECURSIVE EraseAll(_, _)
EraseAll(body, fragments) ==
    IF fragments = <<>> THEN body
    ELSE EraseAll(Replace(body, <<Head(fragments)>>, <<>>), Tail(fragments))

\* lines 58-75: list markup to outline checkboxes
ConvertLists(body) ==
    LET b1 == Replace(body, <<UncheckedItem>>, UncheckedBox)
        b2 == Replace(b1, <<CheckedItem>>, CheckedBox)
        b3 == EraseAll(b2, HtmlTagsToErase)
        b4 == Replace(b3, UncheckedBox \o <<"nl">>, UncheckedBox)
    IN  Replace(b4, CheckedBox \o <<"nl">>, CheckedBox)

\* lines 80-81: self.tags[i] = html.unescape(tag), in place
UnescapeTags(tags) == [k \in 1..Len(tags) |-> Unescape(tags[k])]

\* lines 84-85: remove "#tag" for every tag, in order
RECURSIVE StripTags(_, _)
StripTags(body, tags) ==
    IF tags = <<>> THEN body
    ELSE StripTags(Replace(body, <<"#">> \o Head(tags), <<>>), Tail(tags))

\* line 88
imageLinks(images) ==
    [k \in 1..Len(images) |-> <<"[[file:">> \o images[k] \o <<"]]">>]

\* lines 54-93: the body before the title is derived
NormalizedBody(self) ==
    LET body == Unescape(ConvertLists(self.body))
        stripped == Strip(StripTags(body, UnescapeTags(self.tags)))
    IN  stripped \o JoinLines(imageLinks(self.images))

\* DeriveTitle with the line break left in the body: body[len(orgTitle):]
DeriveTitle_KeepsBreak(title, body) ==
    IF title # <<>> THEN <<title, body>>
    ELSE LET toNewline == Find(body, "nl")
         IN  IF toNewline >= 0
             THEN LET orgTitle == SubSeq(body, 1, toNewline)
                  IN  <<orgTitle, SubSeq(body, Len(orgTitle) + 1, Len(body))>>
             ELSE <<body, <<>>>>

\* lines 96-107: <<orgTitle, body>>
DeriveTitle(title, body) ==
    IF title # <<>> THEN <<title, body>>
    ELSE LET toNewline == Find(body, "nl")
         IN  IF toNewline >= 0
             THEN LET orgTitle == SubSeq(body, 1, toNewline)
                  IN  <<orgTitle, SubSeq(body, Len(orgTitle) + 2, Len(body))>>
             ELSE <<body, <<>>>>

\* FormatBlock with the body written once more after the metadata block
FormatBlock_BodyAgain(archived, orgTitle, body, tags, created) ==
    LET nesting == IF archived THEN <<"*">> ELSE <<>>
        head == <<"*">> \o nesting \o <<"sp">> \o orgTitle
    IN  IF body # <<>> \/ Len(tags) # 0
        THEN IF body # <<>> /\ Len(tags) = 0
             THEN head \o <<"nl">> \o created \o <<"nl">> \o body
             ELSE IF body = <<>> /\ Len(tags) # 0
             THEN head \o <<"sp">> \o tagsToOrgString(tags) \o <<"nl">>
                       \o created \o <<"nl">>
             ELSE head \o <<"sp">> \o body \o <<"nl">> \o tagsToOrgString(tags)
                       \o <<"nl">> \o created \o <<"nl">> \o body
        ELSE head \o <<"nl">> \o created

\* lines 109-127: the four shapes of a block
FormatBlock(archived, orgTitle, body, tags, created) ==
    LET nesting == IF archived THEN <<"*">> ELSE <<>>
        head == <<"*">> \o nesting \o <<"sp">> \o orgTitle
    IN  IF body # <<>> \/ Len(tags) # 0
        THEN IF body # <<>> /\ Len(tags) = 0
             THEN head \o <<"nl">> \o created \o <<"nl">> \o body
             ELSE IF body = <<>> /\ Len(tags) # 0
             THEN head \o <<"sp">> \o tagsToOrgString(tags) \o <<"nl">>
                       \o created \o <<"nl">>
             ELSE head \o <<"sp">> \o body \o <<"nl">> \o tagsToOrgString(tags)
                       \o <<"nl">> \o created \o <<"nl">>
        ELSE head \o <<"nl">> \o created

\* Note.toOrgString: the string returned
toOrgString(self) ==
    LET tb == DeriveTitle(Unescape(self.title), NormalizedBody(self))
    IN  FormatBlock(self.archived, tb[1], tb[2], UnescapeTags(self.tags),
                    strftime(self.date))

\* Note.toOrgString: the note after the call (lines 80-81 write self.tags)
AfterToOrgString(self) == [self EXCEPT !.tags = UnescapeTags(self.tags)]

----------------------------------------------------------------------------
(* The records main reads. *)

\* createdTimestampUsec values: the later one has the smaller microsecond part
TimestampPool == {1, UsecPerSec}

\* The key createdTimestampUsec: present with a number ("usec"), absent
\* ("missing"), or present with a value that is no number ("bad").
TimestampKinds == {"usec", "missing", "bad"}

\* Note.tags at the grouping stage.  main never assigns note.tags, so in a run
\* of main as written it still holds the constructor's empty list (line 45);
\* the populated lists are the ones the grouping and rendering code handle.
TagListPool ==
    {<<>>, <<<<"a">>>>, <<<<"a", ".">>>>, <<<<"a">>, <<"a", ".">>>>, <<<<"&amp;amp;">>, <<"a">>>>}

\* title, content and attachments of a record: a text note, a list note with
\* a title and an attachment, a record with neither content field
ContentPool ==
    { [title |-> <<>>, content |-> "text", textContent |-> <<"a", "nl", "b">>,
       listContent |-> <<>>, attachments |-> <<>>],
      [title |-> <<"a">>, content |-> "list", textContent |-> <<>>,
       listContent |-> << <<"a">>, <<"b">> >>, attachments |-> << <<"p", ".", "png">> >>],
      [title |-> <<>>, content |-> "none", textContent |-> <<>>,
       listContent |-> <<>>, attachments |-> <<>>] }

\* isArchived and isTrashed
FlagPool == {<<FALSE, FALSE>>, <<TRUE, FALSE>>, <<FALSE, TRUE>>}

\* records of an export, as json.loads returns them
ExportRecords ==
    LET all ==
        { [isArchived |-> fl[1], isTrashed |-> fl[2], tsKind |-> tk,
           createdTimestampUsec |-> ts, title |-> c.title, content |-> c.content,
           textContent |-> c.textContent, listContent |-> c.listContent,
           attachments |-> c.attachments, tags |-> <<>>] :
            fl \in FlagPool, tk \in TimestampKinds, ts \in TimestampPool, c \in ContentPool }
    IN  {md \in all : md.tsKind = "usec" \/ md.createdTimestampUsec = 1}

\* records whose notes carry tags into the grouping stage
TaggedRecords ==
    { [isArchived |-> ar, isTrashed |-> FALSE, tsKind |-> "usec", createdTimestampUsec |-> ts,
       title |-> <<"a">>, content |-> "text", textContent |-> <<"b">>,
       listContent |-> <<>>, attachments |-> <<>>, tags |-> tg] :
        ar \in BOOLEAN, ts \in TimestampPool, tg \in TagListPool }

Records(populated) == IF populated THEN TaggedRecords ELSE ExportRecords

NoRecord == [content |-> "no record"]

----------------------------------------------------------------------------
(* main: the parse loop, lines 162-213. *)

Untagged == <<"Untagged">>

\* lines 172-176 raise when the timestamp cannot be read or divided
TimestampRaises(md) == md.tsKind # "usec"

\* ContentRaises without the raise of line 189
ContentRaises_Never(md) == FALSE

\* lines 181-189 raise when neither content field is present
ContentRaises(md) == md.content = "none"

\* lines 170-200: the Note built from one record (no statement raises)
ParseNote(md, populated) ==
    [title    |-> IF md.title # <<>> THEN md.title ELSE NewNote.title,
     body     |-> IF md.content = "text" THEN md.textContent
                  ELSE <<"List:", "nl">> \o JoinLines(md.listContent),
     tags     |-> IF populated THEN md.tags ELSE NewNote.tags,
     archived |-> IF md.isArchived \/ md.isTrashed THEN TRUE ELSE NewNote.archived,
     date     |-> fromtimestamp(md.createdTimestampUsec),
     images   |-> NewNote.images \o md.attachments]

HasGroup(groups, tag) == \E k \in 1..Len(groups) : groups[k].tag = tag

GroupIndex(groups, tag) == CHOOSE k \in 1..Len(groups) : groups[k].tag = tag

\* lines 204-207 and 210-213: append to the tag's list, or start it
AddToGroup(groups, tag, n) ==
    IF HasGroup(groups, tag)
    THEN [groups EXCEPT ![GroupIndex(groups, tag)].members = Append(@, n)]
    ELSE Append(groups, [tag |-> tag, members |-> <<n>>])

\* line 203: for tag in note.tags
RECURSIVE AddToTagGroups(_, _, _)
AddToTagGroups(groups, tags, n) ==
    IF tags = <<>> THEN groups
    ELSE AddToTagGroups(AddToGroup(groups, Head(tags), n), Tail(tags), n)

\* lines 202-213: the groups after note n, with these tags, is assigned
AssignGroups(groups, tags, n, split) ==
    LET byTag == IF split THEN AddToTagGroups(groups, tags, n) ELSE groups
    IN  IF tags = <<>> THEN AddToGroup(byTag, Untagged, n) ELSE byTag

\* lines 194-199: which of the three paths exists, if any
Probes == {"asis", "jpg", "jpeg", "none"}

ProbedPath(filePath, probe) ==
    IF probe = "asis" THEN filePath
    ELSE SubSeq(filePath, 1, Len(filePath) - 1) \o <<probe>>

\* copy2(path, outputDir): the file appears in the output directory
CopyFile(dir, path) ==
    [f \in DOMAIN dir \cup {path} |-> IF f = path THEN <<"image">> ELSE dir[f]]

\* line 193: for attachment in meta_data["attachments"]
RECURSIVE CopyAttachments(_, _, _)
CopyAttachments(dir, attachments, probes) ==
    IF attachments = <<>> THEN dir
    ELSE LET copied == IF Head(probes) = "none" THEN dir
                       ELSE CopyFile(dir, ProbedPath(Head(attachments), Head(probes)))
         IN  CopyAttachments(copied, Tail(attachments), Tail(probes))

\* one iteration of the loop of line 162
ParseRecord ==
    /\ pc = "parse"
    /\ Len(notes) < MaxNotes
    /\ \E md \in Records(tagsPopulated) :
        /\ meta_data' = md
        /\ IF TimestampRaises(md) \/ ContentRaises(md)
           THEN /\ pc' = "error"
                /\ UNCHANGED <<notes, noteGroups, files>>
           ELSE LET note == ParseNote(md, tagsPopulated)
                    n == Len(notes) + 1
                IN  /\ notes' = Append(notes, note)
                    /\ noteGroups' = AssignGroups(noteGroups, note.tags, n, splitByTag)
                    /\ \E probes \in [1..Len(md.attachments) -> Probes] :
                          files' = CopyAttachments(files, md.attachments, probes)
                    /\ pc' = "parse"
    /\ UNCHANGED <<tagsPopulated, includeArchived, splitByTag, wrote,
                   numNotesWritten, renderVars>>

\* the loop of line 162 runs out of files
EndOfFiles ==
    /\ pc = "parse"
    /\ pc' = "render"
    /\ UNCHANGED <<tagsPopulated, includeArchived, splitByTag, meta_data, notes,
                   noteGroups, files, wrote, numNotesWritten, renderVars>>

----------------------------------------------------------------------------
(* main: the render loop, lines 216-242. *)

makeSafeFilename(strToPurify) ==
    Replace(Replace(strToPurify, <<"/">>, <<>>), <<".">>, <<>>)

\* line 218, without the directory
outFileName(tag) == makeSafeFilename(tag) \o <<".org">>

\* InsertByDate that puts a note before the notes of equal date
RECURSIVE InsertByDate_BeforeEqual(_, _, _)
InsertByDate_BeforeEqual(order, n, heap) ==
    IF order = <<>> THEN <<n>>
    ELSE IF ~DateLess(heap[Head(order)].date, heap[n].date)
         THEN <<n>> \o order
         ELSE <<Head(order)>> \o InsertByDate_BeforeEqual(Tail(order), n, heap)

\* where sorted() puts note n among the notes already in order: after every
\* note whose date is not later (the sort is stable)
RECURSIVE InsertByDate(_, _, _)
InsertByDate(order, n, heap) ==
    IF order = <<>> THEN <<n>>
    ELSE IF DateLess(heap[n].date, heap[Head(order)].date)
         THEN <<n>> \o order
         ELSE <<Head(order)>> \o InsertByDate(Tail(order), n, heap)

RECURSIVE SortLoop(_, _, _)
SortLoop(order, group, heap) ==
    IF group = <<>> THEN order
    ELSE SortLoop(InsertByDate(order, Head(group), heap), Tail(group), heap)

\* line 220: sorted(group, key=lambda note: note.date)
notesSortedByDate(group, heap) == SortLoop(<<>>, group, heap)

ArchivedHeader == [note |-> 0, text |-> <<"*", "sp", "*Archived*", "nl">>]

\* lines 225-231: each note rendered in order; toOrgString writes to the note
RECURSIVE RenderLoop(_, _, _, _)
RenderLoop(order, heap, lines, archivedLines) ==
    IF order = <<>>
    THEN [heap |-> heap, lines |-> lines, archivedLines |-> archivedLines]
    ELSE LET n == Head(order)
             line == [note |-> n, text |-> toOrgString(heap[n]) \o <<"nl">>]
             after == [heap EXCEPT ![n] = AfterToOrgString(heap[n])]
         IN  IF heap[n].archived
             THEN RenderLoop(Tail(order), after, lines, Append(archivedLines, line))
             ELSE RenderLoop(Tail(order), after, Append(lines, line), archivedLines)

\* LinesToWrite with the active blocks before the archived ones
LinesToWrite_ActiveFirst(lines, archivedLines, include) ==
    IF Len(archivedLines) # 0 /\ include
    THEN <<[note |-> 0, text |-> <<"*", "sp", "*Archived*", "nl">>]>> \o lines \o archivedLines
    ELSE lines

\* LinesToWrite that does not read includeArchived
LinesToWrite_AlwaysArchived(lines, archivedLines, include) ==
    IF Len(archivedLines) # 0
    THEN <<[note |-> 0, text |-> <<"*", "sp", "*Archived*", "nl">>]>> \o archivedLines \o lines
    ELSE lines

\* lines 233-234
LinesToWrite(lines, archivedLines, include) ==
    IF Len(archivedLines) # 0 /\ include
    THEN <<ArchivedHeader>> \o archivedLines \o lines
    ELSE lines

\* lines 236-238: open(outFileName, "w") and writelines
WriteFile(dir, name, lines) ==
    [f \in DOMAIN dir \cup {name} |->
        IF f = name THEN Concat([k \in 1..Len(lines) |-> lines[k].text]) ELSE dir[f]]

\* one iteration of the loop of line 217
WriteGroup ==
    /\ pc = "render"
    /\ Len(wrote) < Len(noteGroups)
    /\ LET g == noteGroups[Len(wrote) + 1]
           r == RenderLoop(notesSortedByDate(g.members, notes), notes, <<>>, <<>>)
           lines == LinesToWrite(r.lines, r.archivedLines, includeArchived)
       IN  /\ notes' = r.heap
           /\ files' = WriteFile(files, outFileName(g.tag), lines)
           /\ wrote' = Append(wrote, [tag |-> g.tag, file |-> outFileName(g.tag),
                                      lines |-> lines])
           /\ numNotesWritten' = numNotesWritten + Len(g.members)
    /\ UNCHANGED <<tagsPopulated, includeArchived, splitByTag, pc, meta_data,
                   noteGroups, renderVars>>

\* line 242: every group is written
Finish ==
    /\ pc = "render"
    /\ Len(wrote) = Len(noteGroups)
    /\ pc' = "done"
    /\ UNCHANGED <<tagsPopulated, includeArchived, splitByTag, meta_data, notes,
                   noteGroups, files, wrote, numNotesWritten, renderVars>>

----------------------------------------------------------------------------
(* Specifications of main. *)

IdleNote == NewNote

InitRun(populated) ==
    /\ tagsPopulated = populated
    /\ includeArchived \in BOOLEAN
    /\ splitByTag \in BOOLEAN
    /\ pc = "parse"
    /\ meta_data = NoRecord
    /\ notes = <<>>
    /\ noteGroups = <<>>
    /\ files = <<>>
    /\ wrote = <<>>
    /\ numNotesWritten = 0
    /\ rnote = IdleNote
    /\ rpre = IdleNote
    /\ rblocks = <<>>

\* main as written: every note reaches the grouping stage without tags
Init == InitRun(FALSE)

\* main over notes whose tags are populated
InitTagged == InitRun(TRUE)

Next == ParseRecord \/ EndOfFiles \/ WriteGroup \/ Finish

Spec == Init /\ [][Next]_vars

SpecTagged == InitTagged /\ [][Next]_vars

----------------------------------------------------------------------------
(* toOrgString alone: one Note, rendered again and again. *)

BodyChars == {"a", "nl", "sp", "#", "&amp;"}

\* bodies with the list markup of an export
MarkupBodies ==
    { <<"<ul class=list>", UncheckedItem, "<span class=text>", "a", "</span>", "</li>", "</ul>">>,
      <<CheckedItem, "nl", "<span class=text>", "a", "</span>", "</li>",
        UncheckedItem, "nl", "b", "</li>">> }

RenderBodies == SeqsUpTo(BodyChars, MaxBodyLen) \cup MarkupBodies

RenderNotes ==
    { [title |-> ti, body |-> bo, tags |-> tg, archived |-> ar,
       date |-> fromtimestamp(UsecPerSec), images |-> im] :
        ti \in {<<>>, <<"a">>}, bo \in RenderBodies, tg \in TagListPool,
        ar \in BOOLEAN, im \in SeqsUpTo({<<"p", ".", "png">>}, MaxImages) }

InitRender ==
    /\ tagsPopulated = TRUE
    /\ includeArchived = FALSE
    /\ splitByTag = FALSE
    /\ pc = "idle"
    /\ meta_data = NoRecord
    /\ notes = <<>>
    /\ noteGroups = <<>>
    /\ files = <<>>
    /\ wrote = <<>>
    /\ numNotesWritten = 0
    /\ rnote \in RenderNotes
    /\ rpre = rnote
    /\ rblocks = <<>>

\* the last two of the blocks returned
LastTwo(blocks) ==
    IF Len(blocks) <= 2 THEN blocks ELSE SubSeq(blocks, Len(blocks) - 1, Len(blocks))

\* a call of rnote.toOrgString()
CallToOrgString ==
    /\ pc = "idle"
    /\ rblocks' = LastTwo(Append(rblocks, toOrgString(rnote)))
    /\ rpre' = rnote
    /\ rnote' = AfterToOrgString(rnote)
    /\ UNCHANGED mainVars

NextRender == CallToOrgString

SpecRender == InitRender /\ [][NextRender]_vars

----------------------------------------------------------------------------
(* Claims about the grouping stage. *)

\* the grouping stage has finished and nothing is rendered yet
GroupingDone == pc = "render" /\ wrote = <<>>

Range(seq) == {seq[k] : k \in 1..Len(seq)}

\* note n is a member of the group named tag
InGroup(n, tag) ==
    \E k \in 1..Len(noteGroups) : noteGroups[k].tag = tag /\ n \in Range(noteGroups[k].members)

GroupsOf(n) == {noteGroups[k].tag : k \in {j \in 1..Len(noteGroups) : n \in Range(noteGroups[j].members)}}

----------------------------------------------------------------------------
(* Claims about the files written. *)

\* the notes of the lines, in order (0 is the header line)
LineNotes(lines) == [k \in 1..Len(lines) |-> lines[k].note]

\* the members of a group that are archived, or that are not, in group order
MembersWhere(members, archived) == SelectSeq(members, LAMBDA n : notes[n].archived = archived)

\* the block of note n as a line of a file
BlockLine(n) == [note |-> n, text |-> toOrgString(notes[n]) \o <<"nl">>]

SameMembers(lineNotes, members) ==
    /\ Len(lineNotes) = Len(members)
    /\ \A n \in Range(members) \cup Range(lineNotes) :
          Cardinality({k \in 1..Len(lineNotes) : lineNotes[k] = n})
              = Cardinality({k \in 1..Len(members) : members[k] = n})

\* the file of the k-th write holds the lines of that write
FileHolds(k) ==
    /\ wrote[k].file \in DOMAIN files
    /\ files[wrote[k].file] = Concat([j \in 1..Len(wrote[k].lines) |-> wrote[k].lines[j].text])

\* C2: with includeArchived, the file of a group that has an archived or
\* trashed note is the header line "* *Archived*", once and first, then the
\* blocks of all its archived notes, then the blocks of all its active notes.
C2_ArchivedFirstUnderOneHeader ==
    \A k \in 1..Len(wrote) :
        LET members == noteGroups[k].members
            lines == wrote[k].lines
            nArchived == Len(MembersWhere(members, TRUE))
        IN  (includeArchived /\ nArchived > 0) =>
                /\ FileHolds(k)
                /\ Len(lines) = 1 + Len(members)
                /\ lines[1] = ArchivedHeader
                /\ \A j \in 2..Len(lines) :
                      /\ lines[j] = BlockLine(lines[j].note)
                      /\ lines[j].text # ArchivedHeader.text
                      /\ notes[lines[j].note].archived = (j <= 1 + nArchived)
                /\ SameMembers(Tail(LineNotes(lines)), members)

\* a written group with an active note and a note archived because its record
\* (the last one read) is trashed
C2_Witness ==
    /\ includeArchived
    /\ \E k \in 1..Len(wrote) :
          /\ Len(MembersWhere(noteGroups[k].members, TRUE)) > 0
          /\ Len(MembersWhere(noteGroups[k].members, FALSE)) > 0
          /\ Len(notes) \in Range(noteGroups[k].members)
          /\ meta_data.isTrashed
          /\ notes[Len(notes)].archived

\* C3: without includeArchived, the file of a group holds the block of every
\* active note of the group, no block of an archived or trashed note, and no
\* header line.
C3_OnlyActiveWhenExcluded ==
    \A k \in 1..Len(wrote) :
        LET members == noteGroups[k].members
            lines == wrote[k].lines
        IN  ~includeArchived =>
                /\ FileHolds(k)
                /\ \A j \in 1..Len(lines) :
                      /\ lines[j].note # 0
                      /\ lines[j] = BlockLine(lines[j].note)
                      /\ lines[j].text # ArchivedHeader.text
                      /\ ~notes[lines[j].note].archived
                /\ SameMembers(LineNotes(lines), MembersWhere(members, FALSE))

C3_Witness ==
    /\ ~includeArchived
    /\ \E k \in 1..Len(wrote) :
          /\ Len(MembersWhere(noteGroups[k].members, TRUE)) > 0
          /\ Len(MembersWhere(noteGroups[k].members, FALSE)) > 0

\* C4: in every file written, the blocks of the archived notes, and those of
\* the active notes, are in non-decreasing order of date, and notes of equal
\* date keep the order in which their records were read.
C4_SortedStableByDate ==
    \A k \in 1..Len(wrote) :
        LET lines == wrote[k].lines
        IN  \A i \in 1..Len(lines) : \A j \in (i + 1)..Len(lines) :
                LET a == lines[i].note
                    b == lines[j].note
                IN  (a # 0 /\ notes[a].archived = notes[b].archived) =>
                        /\ ~DateLess(notes[b].date, notes[a].date)
                        /\ notes[a].date = notes[b].date => a < b

\* a file with two blocks of one partition whose records were read in the
\* other order
C4_Witness ==
    /\ \E k \in 1..Len(wrote) :
          LET lines == wrote[k].lines
          IN  \E i \in 1..Len(lines) : \E j \in (i + 1)..Len(lines) :
                  /\ lines[i].note > lines[j].note
                  /\ lines[j].note # 0
                  /\ notes[lines[i].note].archived = notes[lines[j].note].archived

----------------------------------------------------------------------------
(* Claims about the errors of the parse loop. *)

RecordRead == meta_data # NoRecord

\* C5: a record whose createdTimestampUsec is missing or is no number does
\* not end the run: its note is created with the date 2000-01-01 00:00 and
\* the loop goes on.
C5_FallbackDateInsteadOfError ==
    (RecordRead /\ meta_data.tsKind # "usec" /\ meta_data.content # "none") =>
        /\ pc # "error"
        /\ notes # <<>>
        /\ notes[Len(notes)].date = FallbackDate

IsGroupFile(f) == f # <<>> /\ f[Len(f)] = ".org"

\* C6: a record with neither textContent nor listContent ends the run in an
\* error at that record: no step follows, the record's note is in no group
\* (the step leaves notes and groups as they were) and no group file exists.
C6_AbortsBeforeAnyWrite ==
    /\ [](RecordRead /\ meta_data.content = "none" =>
            /\ pc = "error"
            /\ ~ENABLED Next
            /\ wrote = <<>>
            /\ \A f \in DOMAIN files : ~IsGroupFile(f))
    /\ [][pc' = "error" => notes' = notes /\ noteGroups' = noteGroups]_vars

\* the run stopped at a record without content, after a note was grouped
C6_Witness ==
    /\ RecordRead
    /\ meta_data.content = "none"
    /\ meta_data.tsKind = "usec"
    /\ pc = "error"
    /\ noteGroups # <<>>

----------------------------------------------------------------------------
(* Claims about toOrgString.  rpre is the note the last block was made from. *)

Rendered == rblocks # <<>>

LastBlock == rblocks[Len(rblocks)]

\* title and body of rpre after the title is derived
TitleAndBody == DeriveTitle(Unescape(rpre.title), NormalizedBody(rpre))

HeadingLine(title, body) ==
    <<"*">> \o (IF rpre.archived THEN <<"*">> ELSE <<>>) \o <<"sp">> \o title \o <<"sp">> \o body

TagString == <<":">> \o Concat([k \in 1..Len(rpre.tags) |-> Unescape(rpre.tags[k]) \o <<":">>])

BodyAndTags == Rendered /\ TitleAndBody[2] # <<>> /\ rpre.tags # <<>>

\* C7: a note with a body (after the title is derived) and with tags renders
\* as the heading line with title and body, the tag string, the metadata
\* block, and then the body again.
C7_BodyRepeatedAfterMetadata ==
    BodyAndTags =>
        IsPrefix(HeadingLine(TitleAndBody[1], TitleAndBody[2]) \o <<"nl">> \o TagString
                     \o <<"nl">> \o strftime(rpre.date) \o <<"nl">> \o TitleAndBody[2],
                 LastBlock)

\* C7 as the code has it: the block ends after the metadata block and a line
\* break; the body stands in the heading line only.
C7_BodyOnlyInHeadingLine ==
    BodyAndTags =>
        LastBlock = HeadingLine(TitleAndBody[1], TitleAndBody[2]) \o <<"nl">> \o TagString
                        \o <<"nl">> \o strftime(rpre.date) \o <<"nl">>

C7_Witness == BodyAndTags /\ rpre.title = <<>> /\ rpre.archived /\ Len(rpre.tags) = 2

\* the place of the first line break of s, 0 if it has none
FirstBreak(s) ==
    IF "nl" \in Range(s) THEN CHOOSE k \in 1..Len(s) : s[k] = "nl" /\ "nl" \notin Range(SubSeq(s, 1, k - 1))
    ELSE 0

\* C8: a note whose title is empty after unescaping renders with the first
\* line of its normalized body (attachment links included) as the title and
\* the rest after that line break as the body; without a line break the whole
\* body is the title and the rendered body is empty.
C8_TitleFromFirstLine ==
    (Rendered /\ Unescape(rpre.title) = <<>>) =>
        LET nb == NormalizedBody(rpre)
            k == FirstBreak(nb)
            title == IF k > 0 THEN SubSeq(nb, 1, k - 1) ELSE nb
            body == IF k > 0 THEN SubSeq(nb, k + 1, Len(nb)) ELSE <<>>
        IN  LastBlock = FormatBlock(rpre.archived, title, body, UnescapeTags(rpre.tags),
                                    strftime(rpre.date))

\* an untitled note with attachments whose normalized body has two line breaks
C8_Witness ==
    /\ Rendered
    /\ rpre.title = <<>>
    /\ rpre.images # <<>>
    /\ Cardinality({k \in 1..Len(NormalizedBody(rpre)) : NormalizedBody(rpre)[k] = "nl"}) > 1

\* C9: toOrgString leaves every field of the note as it was, so a second
\* call returns the same block.
C9_RenderingKeepsTheNote ==
    /\ Rendered => rnote = rpre
    /\ Len(rblocks) = 2 => rblocks[1] = rblocks[2]

====
